---- MODULE Spec2Model ----
(***************************************************************************)
(* Model of flip_image.py: the three-way flip dispatch of both backends,   *)
(* the metadata-preserving save, process_file, batch_process_folder and    *)
(* main, over an explicit file system.                                     *)
(***************************************************************************)
EXTENDS Integers, Sequences, FiniteSets, TLC

VARIABLES
    fs,        \* file system: [files: path -> content, dirs: name -> "dir" or "file"]
    fs0,       \* the file system when the run started
    cv2avail,  \* _cv2_available, fixed when the module is imported
    pc,        \* position of the running entry point
    args,      \* the parsed command line of a run of main
    backend,   \* main's local variable backend
    todo,      \* batch_process_folder: the sorted files not yet processed
    calls,     \* the process_file calls made so far, each with its result
    stdout,    \* lines printed to the standard output
    stderr,    \* lines printed to the error stream
    exit,      \* <<code>> once the process has exited, <<>> while it runs
    call,      \* a direct call of process_file: arguments, pre-state, result
    img0,      \* flip: the image the flips started from
    cur,       \* flip: the image after the flips of trail
    trail,     \* flip: the modes applied so far
    lib,       \* flip: the backend whose flip is applied
    flipErr    \* flip: the exception the last flip raised, or "none"

vars == <<fs, fs0, cv2avail, pc, args, backend, todo, calls, stdout, stderr,
          exit, call, img0, cur, trail, lib, flipErr>>

fileVars == <<fs, fs0, cv2avail, pc, args, backend, todo, calls, stdout,
              stderr, exit, call>>

flipVars == <<img0, cur, trail, lib, flipErr>>

(***************************************************************************)
(* Bounds of the model.                                                    *)
(***************************************************************************)
MaxW == 3
MaxH == 2
MaxFlips == 2

PixelValues == {0, 1}

None == "None"

(***************************************************************************)
(* Strings.  str.lower() over the strings the model uses.                  *)
(***************************************************************************)
UpperToLower ==
    [s \in {"HORIZONTAL", "Both", ".JPG", ".PNG", ".TXT"} |->
        CASE s = "HORIZONTAL" -> "horizontal"
          [] s = "Both" -> "both"
          [] s = ".JPG" -> ".jpg"
          [] s = ".PNG" -> ".png"
          [] s = ".TXT" -> ".txt"]

Lower(s) == IF s \in DOMAIN UpperToLower THEN UpperToLower[s] ELSE s

ValidModes == {"horizontal", "vertical", "both"}

\* What a caller of the Python functions may pass as mode.
AllModes == ValidModes \cup {"HORIZONTAL", "Both", "diagonal"}

Backends == {"pillow", "opencv"}

(***************************************************************************)
(* Pixel arrays: a sequence of rows, each a sequence of pixels.            *)
(***************************************************************************)
Reverse(s) == [i \in 1..Len(s) |-> s[Len(s) + 1 - i]]

Height(px) == Len(px)

Width(px) == Len(px[1])

PixelArrays(maxW, maxH) ==
    UNION {[1..h -> [1..w -> PixelValues]] : w \in 1..maxW, h \in 1..maxH}

\* Image.FLIP_LEFT_RIGHT: every row reversed.
FLIP_LEFT_RIGHT(px) == [y \in 1..Height(px) |-> Reverse(px[y])]

\* Image.FLIP_TOP_BOTTOM: the order of the rows reversed.
FLIP_TOP_BOTTOM(px) == Reverse(px)

\* Mutant: the transpose constant of the other single-axis flip.
ROTATE_180_AsTopBottom(px) == Reverse(px)

\* Mutant: a quarter turn instead of a half turn.
ROTATE_180_AsQuarterTurn(px) ==
    [y \in 1..Width(px) |-> [x \in 1..Height(px) |-> px[Height(px) + 1 - x][y]]]

\* Image.ROTATE_180: pixel (x, y) comes from (W+1-x, H+1-y).
ROTATE_180(px) ==
    [y \in 1..Height(px) |->
        [x \in 1..Width(px) |-> px[Height(px) + 1 - y][Width(px) + 1 - x]]]

\* Mutant: the flip codes of the two axes exchanged.
cv2_flip_AxesSwapped(px, flipCode) ==
    [y \in 1..Height(px) |->
        [x \in 1..Width(px) |->
            IF flipCode = 0 THEN px[y][Width(px) + 1 - x]
            ELSE IF flipCode > 0 THEN px[Height(px) + 1 - y][x]
            ELSE px[Height(px) + 1 - y][Width(px) + 1 - x]]]

\* cv2.flip(img, flipCode): 0 around the x-axis, > 0 around the y-axis,
\* < 0 around both.
cv2_flip(px, flipCode) ==
    [y \in 1..Height(px) |->
        [x \in 1..Width(px) |->
            IF flipCode = 0 THEN px[Height(px) + 1 - y][x]
            ELSE IF flipCode > 0 THEN px[y][Width(px) + 1 - x]
            ELSE px[Height(px) + 1 - y][Width(px) + 1 - x]]]

Raise(e) == [ok |-> FALSE, err |-> e]

Return(v) == [ok |-> TRUE, val |-> v]

\* flip_pillow(img, mode): mode is lower-cased, then dispatched.
flip_pillow(px, mode) ==
    LET m == Lower(mode) IN
    IF m = "horizontal" THEN Return(FLIP_LEFT_RIGHT(px))
    ELSE IF m = "vertical" THEN Return(FLIP_TOP_BOTTOM(px))
    ELSE IF m = "both" THEN Return(ROTATE_180(px))
    ELSE Raise("ValueError")

\* Mutant: an unknown mode falls through to the horizontal flip.
flip_opencv_Lenient(px, mode) ==
    IF mode = "vertical" THEN Return(cv2_flip(px, 0))
    ELSE IF mode = "both" THEN Return(cv2_flip(px, -1))
    ELSE Return(cv2_flip(px, 1))

\* The dispatch of the opencv branch of process_file: mode compared as is.
flip_opencv(px, mode) ==
    IF mode = "horizontal" THEN Return(cv2_flip(px, 1))
    ELSE IF mode = "vertical" THEN Return(cv2_flip(px, 0))
    ELSE IF mode = "both" THEN Return(cv2_flip(px, -1))
    ELSE Raise("ValueError")

flip(b, px, mode) ==
    IF b = "opencv" THEN flip_opencv(px, mode) ELSE flip_pillow(px, mode)

(***************************************************************************)
(* The flip as a state machine: an image, then flips applied one by one.   *)
(***************************************************************************)
FlipInit ==
    /\ img0 \in PixelArrays(MaxW, MaxH)
    /\ cur = img0
    /\ trail = <<>>
    /\ lib \in Backends
    /\ flipErr = "none"
    /\ fs = <<>> /\ fs0 = <<>> /\ cv2avail = TRUE /\ pc = "flip"
    /\ args = <<>> /\ backend = None /\ todo = <<>> /\ calls = <<>>
    /\ stdout = <<>> /\ stderr = <<>> /\ exit = <<>> /\ call = <<>>

ApplyFlip ==
    /\ flipErr = "none"
    /\ Len(trail) < MaxFlips
    /\ \E mode \in AllModes :
          LET r == flip(lib, cur, mode) IN
          IF r.ok
          THEN /\ cur' = r.val
               /\ trail' = Append(trail, mode)
               /\ flipErr' = "none"
          ELSE /\ flipErr' = r.err
               /\ trail' = Append(trail, mode)
               /\ cur' = cur
    /\ UNCHANGED <<img0, lib>>
    /\ UNCHANGED fileVars

SpecFlip == FlipInit /\ [][ApplyFlip]_vars

(***************************************************************************)
(* The file system.  A path is [dir, stem, suffix]; files maps the paths   *)
(* that exist to their content, dirs maps the top-level names that exist   *)
(* to "dir" or "file".                                                     *)
(***************************************************************************)
SUPPORTED_EXTS == {".jpg", ".jpeg", ".png", ".bmp", ".gif", ".tiff", ".webp"}

Path(d, stem, suffix) == [dir |-> d, stem |-> stem, suffix |-> suffix]

Name(p) == p.stem \o p.suffix

\* Path.exists() of a file path.
Exists(f, p) == p \in DOMAIN f.files

\* Path.exists() of a folder path.
FolderExists(f, d) == d \in DOMAIN f.dirs

\* Path.is_dir() of a folder path.
IsDir(f, d) == d \in DOMAIN f.dirs /\ f.dirs[d] = "dir"

\* Path.is_file()
IsFile(f, p) == Exists(f, p) /\ f.files[p].kind # "dir"

\* d.mkdir(parents=True, exist_ok=True): raises when d exists as a file.
Mkdir(f, d) ==
    IF FolderExists(f, d) /\ ~IsDir(f, d) THEN Raise("FileExistsError")
    ELSE Return([f EXCEPT !.dirs = [x \in DOMAIN f.dirs \cup {d} |-> "dir"]])

Garbage == [kind |-> "garbage"]

SubDir == [kind |-> "dir"]

ImageFile(px, format, icc, exif, opts) ==
    [kind |-> "image", px |-> px, format |-> format, icc |-> icc,
     exif |-> exif, opts |-> opts]

\* Writing content c at p; an existing directory at p cannot be overwritten.
WriteFile(f, p, c) ==
    IF Exists(f, p) /\ f.files[p].kind = "dir" THEN Raise("IsADirectoryError")
    ELSE Return([f EXCEPT !.files =
                    [q \in DOMAIN f.files \cup {p} |-> IF q = p THEN c ELSE f.files[q]]])

\* Image.open(path): the handle of an image file, an exception otherwise.
ImageOpen(f, p) ==
    IF f.files[p].kind = "image"
    THEN Return([px |-> f.files[p].px, format |-> f.files[p].format,
                 info |-> [k \in {x \in {"icc_profile", "exif"} :
                                     IF x = "exif" THEN f.files[p].exif # None
                                     ELSE f.files[p].icc # None} |->
                              IF k = "exif" THEN f.files[p].exif ELSE f.files[p].icc]])
    ELSE Raise("UnidentifiedImageError")

\* What cv2.imdecode returns for bytes it cannot decode (Python's None).
NoImage == <<>>

\* cv2.imdecode(np.fromfile(path), IMREAD_UNCHANGED): the pixels alone;
\* None for bytes that are no image, an exception for a directory.
Imdecode(f, p) ==
    IF f.files[p].kind = "image" THEN Return(f.files[p].px)
    ELSE IF f.files[p].kind = "dir" THEN Raise("IsADirectoryError")
    ELSE Return(NoImage)

\* The format cv2.imencode derives from the extension it is given.
FormatOfExt(ext) ==
    CASE Lower(ext) \in {".jpg", ".jpeg"} -> "JPEG"
      [] Lower(ext) = ".png" -> "PNG"
      [] OTHER -> None

\* Mutant: the EXIF block is not passed on.
SaveKwargs_NoExif(original) ==
    LET fmt == original.format
        k1 == IF fmt # None THEN [k \in {"format"} |-> fmt] ELSE <<>>
        k3 == IF "icc_profile" \in DOMAIN original.info
              THEN [k \in {"icc_profile"} |-> original.info["icc_profile"]]
              ELSE <<>>
    IN  k1 @@ k3

\* The dict save_pillow_with_exif builds for img.save.
SaveKwargs(original) ==
    LET fmt == original.format
        k1 == IF fmt # None THEN [k \in {"format"} |-> fmt] ELSE <<>>
        k2 == IF fmt # None /\ fmt \in {"JPEG", "JPG"}
              THEN [k \in {"quality", "subsampling"} |->
                        IF k = "quality" THEN 95 ELSE 0]
              ELSE <<>>
        k3 == IF "icc_profile" \in DOMAIN original.info
              THEN [k \in {"icc_profile"} |-> original.info["icc_profile"]]
              ELSE <<>>
        k4 == IF "exif" \in DOMAIN original.info
              THEN [k \in {"exif"} |-> original.info["exif"]]
              ELSE <<>>
    IN  k1 @@ k2 @@ k3 @@ k4

\* What img.save(out_path, **save_kwargs) encodes.
Encoded(px, out_path, kw) ==
    ImageFile(px,
              IF "format" \in DOMAIN kw THEN kw["format"] ELSE FormatOfExt(out_path.suffix),
              IF "icc_profile" \in DOMAIN kw THEN kw["icc_profile"] ELSE None,
              IF "exif" \in DOMAIN kw THEN kw["exif"] ELSE None,
              {<<k, kw[k]>> : k \in DOMAIN kw \cap {"quality", "subsampling"}})

\* save_pillow_with_exif(img, out_path, original): the parent directories are
\* made first; encodeOk is whether the codec produces the output.
save_pillow_with_exif(f, px, out_path, original, encodeOk) ==
    LET md == Mkdir(f, out_path.dir) IN
    IF ~md.ok THEN [ok |-> FALSE, err |-> md.err, fs |-> f]
    ELSE IF ~encodeOk THEN [ok |-> FALSE, err |-> "EncodeError", fs |-> md.val]
    ELSE LET w == WriteFile(md.val, out_path, Encoded(px, out_path, SaveKwargs(original))) IN
         IF w.ok THEN [ok |-> TRUE, err |-> "none", fs |-> w.val]
         ELSE [ok |-> FALSE, err |-> w.err, fs |-> md.val]

\* The opencv branch of process_file.
opencv_branch(f, in_path, out_path, mode, cv2ok, encodeOk) ==
    IF ~cv2ok THEN [ok |-> FALSE, err |-> "RuntimeError: backend", fs |-> f]
    ELSE LET img == Imdecode(f, in_path) IN
    IF ~img.ok THEN [ok |-> FALSE, err |-> img.err, fs |-> f]
    ELSE IF img.val = NoImage THEN [ok |-> FALSE, err |-> "RuntimeError: read", fs |-> f]
    ELSE LET flipped == flip_opencv(img.val, mode) IN
    IF ~flipped.ok THEN [ok |-> FALSE, err |-> flipped.err, fs |-> f]
    ELSE LET md == Mkdir(f, out_path.dir) IN
    IF ~md.ok THEN [ok |-> FALSE, err |-> md.err, fs |-> f]
    ELSE IF ~encodeOk \/ FormatOfExt(out_path.suffix) = None
         THEN [ok |-> FALSE, err |-> "RuntimeError: encode", fs |-> md.val]
    ELSE LET w == WriteFile(md.val, out_path,
                            ImageFile(flipped.val, FormatOfExt(out_path.suffix),
                                      None, None, {})) IN
         IF w.ok THEN [ok |-> TRUE, err |-> "none", fs |-> w.val]
         ELSE [ok |-> FALSE, err |-> w.err, fs |-> md.val]

\* The pillow branch of process_file.
pillow_branch(f, in_path, out_path, mode, encodeOk) ==
    LET im == ImageOpen(f, in_path) IN
    IF ~im.ok THEN [ok |-> FALSE, err |-> im.err, fs |-> f]
    ELSE LET flipped == flip_pillow(im.val.px, mode) IN
    IF ~flipped.ok THEN [ok |-> FALSE, err |-> flipped.err, fs |-> f]
    ELSE save_pillow_with_exif(f, flipped.val, out_path, im.val, encodeOk)

\* Mutant: the overwrite flag read the wrong way round.
OutputBlocked_Inverted(f, out_path, overwrite) == overwrite /\ Exists(f, out_path)

\* The guard of line 82: an existing output is not replaced without overwrite.
OutputBlocked(f, out_path, overwrite) == ~overwrite /\ Exists(f, out_path)

\* Mutant: only the ValueError of the mode dispatch is caught.
TryExcept_OnlyValueError(r, in_path, out_path) ==
    IF r.ok
    THEN [ret |-> TRUE, err |-> "none", escaped |-> FALSE, fs |-> r.fs,
          log |-> <<<<"[+] Saved:", out_path>>>>]
    ELSE IF r.err = "ValueError"
    THEN [ret |-> FALSE, err |-> r.err, escaped |-> FALSE, fs |-> r.fs,
          log |-> <<<<"[!] Failed to process", in_path, r.err>>>>]
    ELSE [ret |-> FALSE, err |-> r.err, escaped |-> TRUE, fs |-> r.fs, log |-> <<>>]

\* The try/except of process_file around the branch result r: success is
\* logged and returned as True; any exception is caught, logged and
\* returned as False.  escaped says whether an exception leaves process_file.
TryExcept(r, in_path, out_path) ==
    IF r.ok
    THEN [ret |-> TRUE, err |-> "none", escaped |-> FALSE, fs |-> r.fs,
          log |-> <<<<"[+] Saved:", out_path>>>>]
    ELSE [ret |-> FALSE, err |-> r.err, escaped |-> FALSE, fs |-> r.fs,
          log |-> <<<<"[!] Failed to process", in_path, r.err>>>>]

\* process_file(in_path, out_path, mode, overwrite, backend): the returned
\* value, the lines printed, the exception caught (if any) and the file
\* system afterwards.
process_file(f, in_path, out_path, mode, overwrite, b, cv2ok, encodeOk) ==
    IF ~Exists(f, in_path)
    THEN [ret |-> FALSE, err |-> "none", escaped |-> FALSE, fs |-> f,
          log |-> <<<<"[!] Input file not found:", in_path>>>>]
    ELSE IF OutputBlocked(f, out_path, overwrite)
    THEN [ret |-> FALSE, err |-> "none", escaped |-> FALSE, fs |-> f,
          log |-> <<<<"[!] Output file already exists:", out_path>>>>]
    ELSE TryExcept(IF b = "opencv"
                   THEN opencv_branch(f, in_path, out_path, mode, cv2ok, encodeOk)
                   ELSE pillow_branch(f, in_path, out_path, mode, encodeOk),
                   in_path, out_path)

\* The record kept of one call of process_file and its result.
CallRecord(pre, in_path, out_path, mode, overwrite, b, encodeOk, r) ==
    [in_path |-> in_path, out_path |-> out_path, mode |-> mode,
     overwrite |-> overwrite, backend |-> b, encodeOk |-> encodeOk,
     pre |-> pre, ret |-> r.ret, err |-> r.err, escaped |-> r.escaped]

(***************************************************************************)
(* Direct calls of process_file on a small file system.                    *)
(***************************************************************************)
PA == Path("in", "a", ".jpg")

PB == Path("out", "b", ".PNG")

PC == Path("out", "c", ".txt")

Pixels0 == <<<<1, 2>>, <<3, 4>>>>

Blobs == {None, "blob"}

\* The image files a run may find on disk.
InitialImages ==
    {ImageFile(Pixels0, fmt, icc, exif, {}) :
        fmt \in {"JPEG", "PNG"}, icc \in Blobs, exif \in Blobs}

Absent == [kind |-> "absent"]

\* Variables of the runs of main, unused by a direct call.
MainIdle ==
    /\ args = <<>>
    /\ backend = None
    /\ todo = <<>>
    /\ calls = <<>>
    /\ stderr = <<>>
    /\ exit = <<>>

FlipIdle ==
    /\ img0 = <<>>
    /\ cur = <<>>
    /\ trail = <<>>
    /\ lib = None
    /\ flipErr = "none"

FileInit ==
    /\ cv2avail \in BOOLEAN
    /\ \E ca \in InitialImages \cup {Garbage, SubDir, Absent},
          cb \in {ImageFile(Pixels0, "PNG", None, None, {}), SubDir, Absent},
          od \in {"dir", "file", "absent"} :
          /\ cb # Absent => od = "dir"
          /\ fs = [files |-> [p \in {q \in {PA, PB} :
                                       IF q = PA THEN ca # Absent ELSE cb # Absent} |->
                                 IF p = PA THEN ca ELSE cb],
                   dirs |-> [d \in {"in"} \cup {x \in {"out"} : od # "absent"} |->
                                 IF d = "in" THEN "dir" ELSE od]]
    /\ fs0 = fs
    /\ pc = "idle"
    /\ call = <<>>
    /\ stdout = <<>>
    /\ MainIdle
    /\ FlipIdle

\* One call process_file(in_path, out_path, mode, overwrite, backend).
ProcessFileCall ==
    /\ pc = "idle"
    /\ \E in_path \in {PA, PB}, out_path \in {PA, PB, PC}, mode \in AllModes,
          overwrite \in BOOLEAN, b \in Backends, encodeOk \in BOOLEAN :
          LET r == process_file(fs, in_path, out_path, mode, overwrite, b,
                                cv2avail, encodeOk)
          IN  /\ fs' = r.fs
              /\ stdout' = r.log
              /\ call' = <<CallRecord(fs, in_path, out_path, mode, overwrite, b,
                                       encodeOk, r)>>
    /\ pc' = "returned"
    /\ UNCHANGED <<fs0, cv2avail, args, backend, todo, calls, stderr, exit>>
    /\ UNCHANGED flipVars

(***************************************************************************)
(* Runs of main.                                                           *)
(***************************************************************************)
\* The names of the input folder's entries, in the order of Python's str
\* comparison (code points: upper case before lower case).
CodepointOrder == <<"B.PNG", "a.jpg", "c.txt", "d.gif">>

Rank(p) == CHOOSE i \in 1..Len(CodepointOrder) : CodepointOrder[i] = Name(p)

\* Path.__lt__ for two entries of one folder.
PathLess(p, q) == Rank(p) < Rank(q)

RECURSIVE sorted(_)
sorted(S) ==
    IF S = {} THEN <<>>
    ELSE LET m == CHOOSE x \in S : \A y \in S \ {x} : PathLess(x, y)
         IN  <<m>> \o sorted(S \ {m})

\* in_folder.iterdir()
Iterdir(f, d) == {p \in DOMAIN f.files : p.dir = d}

\* Mutant: the suffix compared without lower-casing it.
is_image_file_CaseSensitive(f, p) == IsFile(f, p) /\ p.suffix \in SUPPORTED_EXTS

is_image_file(f, p) == IsFile(f, p) /\ Lower(p.suffix) \in SUPPORTED_EXTS

EB == Path("in", "B", ".PNG")

EA == Path("in", "a", ".jpg")

EC == Path("in", "c", ".txt")

ED == Path("in", "d", ".gif")

OA == Path("out", "a", ".jpg")

Photo == ImageFile(Pixels0, "JPEG", "blob", "blob", {})

\* What argparse accepts: exactly one of --input and --input-folder, mode
\* and backend among their choices.  An option not given is <<>>.
ArgsSet ==
    {[input |-> i, input_folder |-> d, output |-> o, output_folder |-> od,
      mode |-> m, overwrite |-> ow, backend |-> b] :
        i \in {<<>>, <<EA>>}, d \in {<<>>, <<"in">>, <<"missing">>, <<"plain">>},
        o \in {<<>>, <<OA>>}, od \in {<<>>, <<"out">>, <<"in">>},
        m \in ValidModes, ow \in BOOLEAN, b \in Backends}

MainInit ==
    /\ cv2avail \in BOOLEAN
    /\ args \in {a \in ArgsSet :
                    /\ (a.input = <<>>) # (a.input_folder = <<>>)
                    /\ a.input # <<>> => a.output_folder = <<>>
                    /\ a.input_folder # <<>> => a.output = <<>>
                    /\ a.output_folder = <<"in">> => a.input_folder = <<"in">>}
    /\ \E cb \in {Photo, Garbage, Absent}, ca \in {Photo, Absent},
          cc \in {Photo}, cd \in {SubDir, Photo, Absent},
          out \in {"absent", "empty", "old"} :
          LET content == [p \in {EB, EA, EC, ED, OA} |->
                             CASE p = EB -> cb [] p = EA -> ca [] p = EC -> cc
                               [] p = ED -> cd
                               [] p = OA -> IF out = "old" THEN Garbage ELSE Absent]
          IN  fs = [files |-> [p \in {q \in DOMAIN content : content[q] # Absent} |->
                                   content[p]],
                    dirs |-> [d \in {"in", "plain"} \cup {x \in {"out"} : out # "absent"} |->
                                   IF d = "plain" THEN "file" ELSE "dir"]]
    /\ fs0 = fs
    /\ pc = "start"
    /\ backend = None
    /\ todo = <<>>
    /\ calls = <<>>
    /\ stdout = <<>>
    /\ stderr = <<>>
    /\ exit = <<>>
    /\ call = <<>>
    /\ FlipIdle

FallbackWarning ==
    "[!] OpenCV backend selected but opencv-python not installed. Falling back to pillow."

\* Mutant: no fallback when cv2 is missing.
EffectiveBackend_NoFallback(requested, cv2ok) == Lower(requested)

\* main, lines 153-156: the backend the run uses.
EffectiveBackend(requested, cv2ok) ==
    IF Lower(requested) = "opencv" /\ ~cv2ok THEN "pillow" ELSE Lower(requested)

\* main, lines 152-156: the backend is chosen once, with one warning.
SelectBackend ==
    /\ pc = "start"
    /\ stderr' = IF Lower(args.backend) = "opencv" /\ ~cv2avail
                 THEN Append(stderr, FallbackWarning)
                 ELSE stderr
    /\ backend' = EffectiveBackend(args.backend, cv2avail)
    /\ pc' = "dispatch"
    /\ UNCHANGED <<fs, fs0, cv2avail, args, todo, calls, stdout, exit, call>>
    /\ UNCHANGED flipVars

\* Mutant: the result of the call is ignored.
ExitCodeOf_AlwaysZero(success) == <<0>>

\* main, lines 171-172: the exit code after the single-file call.
ExitCodeOf(success) == IF success THEN <<0>> ELSE <<1>>

\* The output path main derives when --output is not given.
DefaultOutput(in_path, mode) ==
    Path(in_path.dir, in_path.stem \o "_flipped_" \o mode, in_path.suffix)

\* main, lines 158-172: the single-file run.
MainSingleFile ==
    /\ pc = "dispatch"
    /\ args.input # <<>>
    /\ LET in_path == args.input[1] IN
       IF ~Exists(fs, in_path)
       THEN /\ stderr' = Append(stderr, "[!] Input file does not exist")
            /\ exit' = <<2>>
            /\ UNCHANGED <<fs, calls, stdout>>
       ELSE LET out_path == IF args.output # <<>> THEN args.output[1]
                            ELSE DefaultOutput(in_path, args.mode)
            IN  \E encodeOk \in BOOLEAN :
                   LET r == process_file(fs, in_path, out_path, args.mode,
                                         args.overwrite, backend, cv2avail, encodeOk)
                   IN  /\ fs' = r.fs
                       /\ stdout' = stdout \o r.log
                       /\ calls' = Append(calls, CallRecord(fs, in_path, out_path, args.mode,
                                                           args.overwrite, backend,
                                                           encodeOk, r))
                       /\ exit' = ExitCodeOf(r.ret)
                       /\ stderr' = stderr
    /\ pc' = "exited"
    /\ UNCHANGED <<fs0, cv2avail, args, backend, todo, call>>
    /\ UNCHANGED flipVars

\* main, lines 174-181, and batch_process_folder up to its loop.  The output
\* folder of a run is absent or a directory, so its mkdir succeeds.
MainBatchSetup ==
    /\ pc = "dispatch"
    /\ args.input = <<>>
    /\ LET in_folder == args.input_folder[1] IN
       IF args.output_folder = <<>>
       THEN /\ stderr' = Append(stderr, "[!] --output-folder is required when using --input-folder")
            /\ exit' = <<2>>
            /\ pc' = "exited"
            /\ UNCHANGED <<fs, todo, stdout>>
       ELSE IF ~FolderExists(fs, in_folder) \/ ~IsDir(fs, in_folder)
       THEN /\ stdout' = Append(stdout, <<"[!] Input folder not found or not a directory:", in_folder>>)
            /\ exit' = <<0>>
            /\ pc' = "exited"
            /\ UNCHANGED <<fs, todo, stderr>>
       ELSE LET made == Mkdir(fs, args.output_folder[1]).val
                files == sorted({p \in Iterdir(made, in_folder) : is_image_file(made, p)})
            IN  /\ fs' = made
                /\ stderr' = stderr
                /\ IF files = <<>>
                   THEN /\ stdout' = Append(stdout, <<"[!] No supported image files found in input folder.">>)
                        /\ exit' = <<0>>
                        /\ pc' = "exited"
                        /\ todo' = <<>>
                   ELSE /\ stdout' = stdout
                        /\ exit' = exit
                        /\ pc' = "batch"
                        /\ todo' = files
    /\ UNCHANGED <<fs0, cv2avail, args, backend, calls, call>>
    /\ UNCHANGED flipVars

\* One iteration of the loop of batch_process_folder; after the last one
\* main returns.
BatchIter ==
    /\ pc = "batch"
    /\ todo # <<>>
    /\ LET p == Head(todo)
           out_p == Path(args.output_folder[1], p.stem, p.suffix)
       IN  \E encodeOk \in BOOLEAN :
              LET r == process_file(fs, p, out_p, args.mode, args.overwrite,
                                    backend, cv2avail, encodeOk)
              IN  /\ fs' = r.fs
                  /\ stdout' = stdout \o r.log
                  /\ calls' = Append(calls, CallRecord(fs, p, out_p, args.mode,
                                                      args.overwrite, backend,
                                                      encodeOk, r))
    /\ todo' = Tail(todo)
    /\ IF Tail(todo) = <<>>
       THEN pc' = "exited" /\ exit' = <<0>>
       ELSE pc' = "batch" /\ exit' = exit
    /\ UNCHANGED <<fs0, cv2avail, args, backend, stderr, call>>
    /\ UNCHANGED flipVars

Init == FileInit \/ MainInit

Next ==
    \/ ProcessFileCall
    \/ SelectBackend
    \/ MainSingleFile
    \/ MainBatchSetup
    \/ BatchIter

Spec == Init /\ [][Next]_vars

(***************************************************************************)
(* Properties.                                                             *)
(***************************************************************************)
MainPcs == {"start", "dispatch", "batch", "exited"}

InMain == pc \in MainPcs

Returned == pc = "returned"

\* The pixel array px mirrored along the x-axis (flipX), the y-axis (flipY)
\* or both, stated by coordinates.
Mirror(px, flipX, flipY) ==
    [y \in 1..Height(px) |->
        [x \in 1..Width(px) |->
            px[IF flipY THEN Height(px) + 1 - y ELSE y]
              [IF flipX THEN Width(px) + 1 - x ELSE x]]]

Expected(px, mode) ==
    Mirror(px, mode \in {"horizontal", "both"}, mode \in {"vertical", "both"})

\* The mode is one the backend's dispatch recognises: pillow lower-cases it
\* first, opencv compares it as it is.
Recognised(b, mode) ==
    IF b = "pillow" THEN Lower(mode) \in ValidModes ELSE mode \in ValidModes

\* The call c got as far as the flip: input present, output not blocked,
\* backend available, input decoded.
ReachedFlip(c) ==
    /\ Exists(c.pre, c.in_path)
    /\ ~(~c.overwrite /\ Exists(c.pre, c.out_path))
    /\ c.backend = "opencv" => cv2avail
    /\ c.pre.files[c.in_path].kind = "image"

\* The output of call c can be written: its folder can be made, the path is
\* no directory, the codec produces output.
CanWrite(c) ==
    /\ ~(c.out_path.dir \in DOMAIN c.pre.dirs /\ c.pre.dirs[c.out_path.dir] = "file")
    /\ ~(Exists(c.pre, c.out_path) /\ c.pre.files[c.out_path].kind = "dir")
    /\ c.encodeOk
    /\ c.backend = "opencv" => Lower(c.out_path.suffix) \in {".jpg", ".jpeg", ".png"}

\* C1: overwrite protection.  A call of process_file with overwrite false
\* and an existing output path returns false and leaves the file system as
\* it was; in a run of main without --overwrite, every file that existed
\* before the run still exists with its content unchanged, and every call
\* that wrote to a path that existed before the run had overwrite set.
C1_OverwriteProtection ==
    /\ Returned =>
          LET c == call[1] IN
          (~c.overwrite /\ Exists(c.pre, c.out_path)) =>
              /\ c.ret = FALSE
              /\ fs = c.pre
    /\ InMain =>
          /\ ~args.overwrite =>
                \A p \in DOMAIN fs0.files :
                    Exists(fs, p) /\ fs.files[p] = fs0.files[p]
          /\ \A i \in 1..Len(calls) :
                (calls[i].ret /\ Exists(fs0, calls[i].out_path)) =>
                    (calls[i].overwrite /\ args.overwrite)

\* C1 witness: a call that would otherwise have written (image input, all
\* else fine) is refused because the output exists.
C1_Witness ==
    /\ Returned
    /\ ~call[1].overwrite
    /\ Exists(call[1].pre, call[1].out_path)
    /\ Exists(call[1].pre, call[1].in_path)
    /\ call[1].pre.files[call[1].in_path].kind = "image"
    /\ call[1].in_path # call[1].out_path
    /\ call[1].mode = "horizontal"
    /\ call[1].encodeOk
    /\ call[1].ret = FALSE

\* C2: process_file lets no exception escape; a failure of decoding,
\* flipping or saving is logged as "[!] Failed to process <input>: <reason>"
\* and returned as false; true is returned only with the output written and
\* "[+] Saved: <output>" logged.
C2_NoEscape ==
    /\ Returned =>
          LET c == call[1] IN
          /\ ~c.escaped
          /\ c.err # "none" =>
                /\ c.ret = FALSE
                /\ stdout = <<<<"[!] Failed to process", c.in_path, c.err>>>>
          /\ (ReachedFlip(c) /\ ~(Recognised(c.backend, c.mode) /\ CanWrite(c))) =>
                c.err # "none"
          /\ (Exists(c.pre, c.in_path) /\ ~(~c.overwrite /\ Exists(c.pre, c.out_path))
                /\ ~ReachedFlip(c)) => c.err # "none"
          /\ c.ret =>
                /\ c.err = "none"
                /\ stdout = <<<<"[+] Saved:", c.out_path>>>>
                /\ Exists(fs, c.out_path)
                /\ fs.files[c.out_path].kind = "image"
    /\ InMain =>
          /\ Len(stdout) >= Len(calls)
          /\ \A i \in 1..Len(calls) :
                /\ ~calls[i].escaped
                /\ calls[i].err # "none" => calls[i].ret = FALSE
                /\ calls[i].ret =>
                      \E j \in 1..Len(stdout) : stdout[j] = <<"[+] Saved:", calls[i].out_path>>

\* C2 witness: the encoder fails after decode and flip succeeded.
C2_Witness ==
    /\ Returned
    /\ ReachedFlip(call[1])
    /\ Recognised(call[1].backend, call[1].mode)
    /\ ~call[1].encodeOk
    /\ call[1].err # "none"
    /\ call[1].ret = FALSE

\* A batch run that got past the checks of main and batch_process_folder.
InBatchLoop ==
    /\ InMain
    /\ pc \in {"batch", "exited"}
    /\ args.input = <<>>
    /\ args.output_folder # <<>>
    /\ IsDir(fs0, args.input_folder[1])

\* The entries the batch has to process: regular files of the input folder
\* whose extension, lower-cased, is supported.
BatchEntries ==
    {p \in DOMAIN fs0.files :
        /\ p.dir = args.input_folder[1]
        /\ fs0.files[p].kind # "dir"
        /\ Lower(p.suffix) \in {".jpg", ".jpeg", ".png", ".bmp", ".gif", ".tiff", ".webp"}}

SeqRange(q) == {q[i] : i \in 1..Len(q)}

C4_ExitCodes ==
    InMain =>
        LET single == args.input # <<>>
            usage == \/ single /\ ~Exists(fs0, args.input[1])
                     \/ ~single /\ args.output_folder = <<>>
        IN  /\ pc # "exited" => exit = <<>>
            /\ pc = "exited" =>
                  /\ usage => (exit = <<2>> /\ fs = fs0 /\ calls = <<>> /\ stdout = <<>>)
                  /\ (~usage /\ single) =>
                        /\ Len(calls) = 1
                        /\ exit = IF calls[1].ret THEN <<0>> ELSE <<1>>
                  /\ (~usage /\ ~single) => exit = <<0>>

\* C4 witness: --input names a missing file.
C4_Witness ==
    /\ InMain
    /\ pc = "exited"
    /\ args.input # <<>>
    /\ ~Exists(fs0, args.input[1])
    /\ exit = <<2>>

\* C4 second case reached as well: the single-file call failed.
C4_FailedCall ==
    /\ InMain
    /\ pc = "exited"
    /\ Len(calls) = 1
    /\ exit = <<1>>

Warnings == {i \in 1..Len(stderr) : stderr[i] = FallbackWarning}

\* C6: in a run of main with --backend opencv and cv2 unavailable, nothing
\* is processed before the backend is chosen; from then on the backend is
\* pillow, the error stream holds exactly one fallback warning, and every
\* call of process_file is made with the pillow backend.
C6_Degradation ==
    (InMain /\ args.backend = "opencv" /\ ~cv2avail) =>
        /\ pc = "start" => (calls = <<>> /\ Warnings = {} /\ fs = fs0)
        /\ pc # "start" => (backend = "pillow" /\ Cardinality(Warnings) = 1)
        /\ \A i \in 1..Len(calls) : calls[i].backend = "pillow"

\* C6 witness: a batch of several files after the fallback.
C6_Witness ==
    /\ InMain
    /\ args.backend = "opencv"
    /\ ~cv2avail
    /\ pc = "exited"
    /\ Len(calls) >= 2

\* C5 as stated: an existing input file, an existing output file and
\* overwrite set make process_file return true with the input flipped under
\* the mode as output.  Read in the claim's favour: both paths are regular
\* files, the mode is one of the three and the codec does not fail.
C5_Original ==
    Returned =>
        LET c == call[1] IN
        (/\ IsFile(c.pre, c.in_path) /\ IsFile(c.pre, c.out_path) /\ c.overwrite
         /\ c.mode \in {"horizontal", "vertical", "both"} /\ c.encodeOk) =>
            /\ c.ret
            /\ fs.files[c.out_path].px = Expected(c.pre.files[c.in_path].px, c.mode)

\* C5 amended: with an existing input that decodes as an image, an existing
\* output that is a file, overwrite set, an available backend, a mode the
\* backend recognises and an encoder that succeeds, process_file returns
\* true and the output holds the input flipped under the mode.
C5_OverwriteFlip ==
    Returned =>
        LET c == call[1] IN
        (/\ Exists(c.pre, c.in_path) /\ Exists(c.pre, c.out_path) /\ c.overwrite
         /\ ReachedFlip(c) /\ Recognised(c.backend, c.mode) /\ CanWrite(c)) =>
            /\ c.ret
            /\ fs.files[c.out_path].kind = "image"
            /\ fs.files[c.out_path].px =
                  Expected(c.pre.files[c.in_path].px, Lower(c.mode))

\* C5 witness: an existing image replaced by the vertical flip of the input.
C5_Witness ==
    /\ Returned
    /\ call[1].in_path = PA
    /\ call[1].out_path = PB
    /\ Exists(call[1].pre, PB)
    /\ call[1].pre.files[PB].kind = "image"
    /\ call[1].overwrite
    /\ call[1].mode = "vertical"
    /\ call[1].ret
    /\ fs.files[PB].px = <<<<3, 4>>, <<1, 2>>>>

\* C9: a pillow call that succeeds writes an output whose ICC profile and
\* EXIF block are those of the original, each present exactly when the
\* original has it; a call whose decode, flip and write can succeed does
\* succeed whether or not the original has either.
C9_Metadata ==
    Returned =>
        LET c == call[1] IN
        c.backend = "pillow" =>
            /\ c.ret =>
                  /\ fs.files[c.out_path].icc = c.pre.files[c.in_path].icc
                  /\ fs.files[c.out_path].exif = c.pre.files[c.in_path].exif
                  /\ fs.files[c.out_path].format = c.pre.files[c.in_path].format
            /\ (ReachedFlip(c) /\ Recognised(c.backend, c.mode) /\ CanWrite(c)) => c.ret

\* C9 witness: an original with an ICC profile and no EXIF block.
C9_Witness ==
    /\ Returned
    /\ call[1].backend = "pillow"
    /\ call[1].ret
    /\ call[1].in_path = PA
    /\ call[1].out_path = PC
    /\ call[1].pre.files[PA].icc = "blob"
    /\ call[1].pre.files[PA].exif = None
    /\ fs.files[PC].icc = "blob"
    /\ fs.files[PC].exif = None

\* C10 as stated: a flip with a mode other than horizontal, vertical, both
\* fails with the invalid-mode error under either backend, and process_file
\* returns false having created nothing.  Stated for the calls whose output
\* could be written, where nothing but the mode can make the call fail.
C10_Original ==
    Returned =>
        LET c == call[1] IN
        (ReachedFlip(c) /\ CanWrite(c)
            /\ c.mode \notin {"horizontal", "vertical", "both"}) =>
            /\ c.err = "ValueError"
            /\ c.ret = FALSE
            /\ fs = c.pre

\* C10 amended: a flip with a mode that is not horizontal, vertical or both
\* (compared as it is by the opencv backend, after lower-casing by the pillow
\* backend) fails with the invalid-mode error; process_file then returns
\* false and has created neither the output file nor its folder.
C10_InvalidMode ==
    Returned =>
        LET c == call[1] IN
        ~Recognised(c.backend, c.mode) =>
            /\ ReachedFlip(c) => c.err = "ValueError"
            /\ c.ret = FALSE
            /\ fs = c.pre

\* C10 witness: opencv, a decodable input, an unknown mode and an output
\* folder that does not exist yet.
C10_Witness ==
    /\ Returned
    /\ call[1].backend = "opencv"
    /\ cv2avail
    /\ call[1].mode = "diagonal"
    /\ ReachedFlip(call[1])
    /\ call[1].out_path = PC
    /\ ~FolderExists(call[1].pre, "out")
    /\ call[1].err = "ValueError"
    /\ ~FolderExists(fs, "out")

(***************************************************************************)
(* Properties of the flip itself, checked under SpecFlip.                  *)
(***************************************************************************)
\* C7: involution.  Two flips with the same mode, horizontal, vertical or
\* both, give back the image they started from.
C7_Involution ==
    (pc = "flip" /\ Len(trail) = 2 /\ trail[1] = trail[2]
        /\ trail[1] \in {"horizontal", "vertical", "both"}) =>
        /\ flipErr = "none"
        /\ cur = img0

\* C7 witness: a 3x1 image that is not symmetric, flipped twice horizontally.
C7_Witness ==
    /\ pc = "flip"
    /\ trail = <<"horizontal", "horizontal">>
    /\ Width(img0) = 3
    /\ Height(img0) = 1
    /\ img0[1][1] # img0[1][3]
    /\ cur = img0

\* C8: mode both equals horizontal then vertical and vertical then
\* horizontal, pixel for pixel and with the same dimensions.
C8_BothIsComposition ==
    (pc = "flip" /\ trail \in {<<"horizontal", "vertical">>, <<"vertical", "horizontal">>}) =>
        /\ flipErr = "none"
        /\ flip(lib, img0, "both").ok
        /\ cur = flip(lib, img0, "both").val
        /\ Height(cur) = Height(img0)
        /\ Width(cur) = Width(img0)

\* C8 witness: a 3x2 image whose corners differ, flipped vertically then
\* horizontally by pillow.
C8_Witness ==
    /\ pc = "flip"
    /\ lib = "pillow"
    /\ trail = <<"vertical", "horizontal">>
    /\ Width(img0) = 3
    /\ Height(img0) = 2
    /\ img0[1][1] # img0[2][3]
    /\ cur = ROTATE_180(img0)

====
